---- MODULE Spec2Model ----
(***************************************************************************)
(* Model of app.py: the caption pipeline analyze_image -> query_hf_api     *)
(* (primary model plus ordered fallbacks) -> keyword formatter.            *)
(*                                                                         *)
(* Strings are sequences of tokens.  Captions are sequences of single      *)
(* characters, so that strip(), lower() and the regex \b<word>s?\b are     *)
(* computed character by character.  Log and error messages are sequences  *)
(* of phrase tokens ("All models failed", "401", ...): a substring test    *)
(* `needle in message` is a contiguous-subsequence test on tokens, and     *)
(* lower() maps every token to its lowercase form.                         *)
(***************************************************************************)
EXTENDS Integers, Sequences, FiniteSets, TLC

VARIABLES
    image,          \* the argument of analyze_image
    env_token,      \* the HUGGINGFACE_TOKEN environment variable
    client_ok,      \* whether InferenceClient(token=...) constructs
    pc,             \* control position of the request
    img,            \* the image as it stands after the resize / convert steps
    models_to_try,  \* query_hf_api: candidate list
    i,              \* query_hf_api: loop index (1-based)
    last_error,     \* query_hf_api: last_error
    in_flight,      \* backend calls started and not yet returned
    log,            \* records written through logger
    response,       \* what the successful candidate returned
    qresult,        \* the value query_hf_api returned
    raised,         \* the exception query_hf_api raised
    listed,         \* the bullet list of detected objects, in output order
    ret             \* how analyze_image ended

vars == <<image, env_token, client_ok, pc, img, models_to_try, i, last_error,
          in_flight, log, response, qresult, raised, listed, ret>>

----------------------------------------------------------------------------
(* Bounds of the model *)

\* captions of the formatter specification are built from at most this many pieces
MaxPieces == 4

\* largest pixel count (width * height) of an input image
MaxPixels == 89478485

----------------------------------------------------------------------------
(* Strings *)

UPPER == <<"A","B","C","D","E","F","G","H","I","J","K","L","M",
           "N","O","P","Q","R","S","T","U","V","W","X","Y","Z">>

LOWER == <<"a","b","c","d","e","f","g","h","i","j","k","l","m",
           "n","o","p","q","r","s","t","u","v","w","x","y","z">>

Range(s) == { s[k] : k \in 1..Len(s) }

DIGITS == {"0","1","2","3","4","5","6","7","8","9"}

WHITESPACE == {" ", "\n", "\t"}

UpperSet == Range(UPPER)

LowerSet == Range(LOWER)

\* str.lower() on one token: a character, or a phrase of a message
LowerTok(c) ==
    IF c \in UpperSet
    THEN LOWER[CHOOSE k \in 1..26 : UPPER[k] = c]
    ELSE CASE c = "All models failed" -> "all models failed"
           [] c = "Unauthorized" -> "unauthorized"
           [] c = "Model is currently loading" -> "model is currently loading"
           [] c = "Rate limit" -> "rate limit"
           [] c = "Connection refused" -> "connection refused"
           [] c = "Read timed out" -> "read timed out"
           [] OTHER -> c

UpperTok(c) ==
    IF c \in LowerSet
    THEN UPPER[CHOOSE k \in 1..26 : LOWER[k] = c]
    ELSE c

\* str.lower()
Lower(s) == [k \in 1..Len(s) |-> LowerTok(s[k])]

\* str.capitalize(): first character upper-cased, the rest lower-cased
Capitalize(s) ==
    [k \in 1..Len(s) |-> IF k = 1 THEN UpperTok(s[k]) ELSE LowerTok(s[k])]

RECURSIVE LStrip(_)
LStrip(s) ==
    IF s # <<>> /\ Head(s) \in WHITESPACE THEN LStrip(Tail(s)) ELSE s

RECURSIVE RStrip(_)
RStrip(s) ==
    IF s # <<>> /\ s[Len(s)] \in WHITESPACE
    THEN RStrip(SubSeq(s, 1, Len(s) - 1))
    ELSE s

\* str.strip()
Strip(s) == RStrip(LStrip(s))

\* needle in hay
Contains(hay, needle) ==
    \E k \in 0..(Len(hay) - Len(needle)) :
        SubSeq(hay, k + 1, k + Len(needle)) = needle

\* str.startswith
StartsWith(s, prefix) ==
    Len(s) >= Len(prefix) /\ SubSeq(s, 1, Len(prefix)) = prefix

\* "sep".join(parts)
RECURSIVE Join(_, _)
Join(sep, parts) ==
    IF parts = <<>> THEN <<>>
    ELSE IF Len(parts) = 1 THEN parts[1]
    ELSE parts[1] \o sep \o Join(sep, Tail(parts))

\* \w of the re module
IsWordChar(c) == c \in UpperSet \cup LowerSet \cup DIGITS \cup {"_"}

----------------------------------------------------------------------------
(* Exceptions and return values *)

NoExc == [type |-> "none", msg |-> <<>>]

Exc(type, msg) == [type |-> type, msg |-> msg]

\* isinstance(e, ValueError)
IsValueError(e) == e.type = "ValueError"

\* isinstance(e, Exception): every exception class the pipeline meets
IsException(e) ==
    e.type \in {"ValueError", "Exception", "HfHubHTTPError", "ConnectionError",
                "TimeoutError", "AttributeError", "FileNotFoundError"}

NoRet == [kind |-> "none", elements |-> <<>>, summary |-> <<>>, exc |-> NoExc]

Return(elements, summary) ==
    [kind |-> "return", elements |-> elements, summary |-> summary, exc |-> NoExc]

Propagate(e) ==
    [kind |-> "raise", elements |-> <<>>, summary |-> <<>>, exc |-> e]

----------------------------------------------------------------------------
(* query_hf_api *)

model_id == "nlpconnect/vit-gpt2-image-captioning"

fallback_models ==
    <<"microsoft/git-base-coco", "ydshieh/vit-gpt2-coco-en",
      "Salesforce/blip-image-captioning-base">>

\* os.getenv('HUGGINGFACE_TOKEN', '').strip()
GetToken(env) == Strip(IF env.set THEN env.value ELSE <<>>)

TokenMissingNoPlaceholder(token) == token = <<>>

\* not token or token == 'your_token_here'
TokenMissing(token) == token = <<>> \/ token = <<"your_token_here">>

TokenError ==
    Exc("ValueError", <<"Please set a valid ", "HUGGINGFACE_TOKEN", " in your .env file">>)

ClientInitError ==
    Exc("Exception", <<"Failed to initialize InferenceClient: ", "Connection refused">>)

\* models_to_try = [model_id]; if fallback_models: extend
ModelsToTry(primary, fallbacks) ==
    IF fallbacks # <<>> THEN <<primary>> \o fallbacks ELSE <<primary>>

UNABLE ==
    <<"U","n","a","b","l","e"," ","t","o"," ","g","e","n","e","r","a","t","e",
      " ","c","a","p","t","i","o","n">>

\* a dict, with or without the key generated_text
Dict(text) == [dict |-> TRUE, has_text |-> TRUE, generated_text |-> text]

EmptyDict == [dict |-> TRUE, has_text |-> FALSE, generated_text |-> <<>>]

\* a list element that is no dict
NonDict == [dict |-> FALSE, has_text |-> FALSE, generated_text |-> <<>>]

StrResponse(text) == [type |-> "str", text |-> text, items |-> <<>>]

ListResponse(items) == [type |-> "list", text |-> <<>>, items |-> items]

NoneResponse == [type |-> "none", text |-> <<>>, items |-> <<>>]

WrapResultNoStrip(result) ==
    IF result.type = "str" THEN <<Dict(result.text)>>
    ELSE IF result.type = "list" /\ Len(result.items) > 0 THEN result.items
    ELSE <<Dict(UNABLE)>>

\* the three return statements after client.image_to_text
WrapResult(result) ==
    IF result.type = "str" THEN <<Dict(Strip(result.text))>>
    ELSE IF result.type = "list" /\ Len(result.items) > 0 THEN result.items
    ELSE <<Dict(UNABLE)>>

\* the failure reasons of a backend call: str(e) and type(e).__name__
BackendErrors ==
    { Exc("HfHubHTTPError", <<"401", " Client Error: ", "Unauthorized">>),
      Exc("HfHubHTTPError", <<"503", " Server Error: ", "Model is currently loading">>),
      Exc("HfHubHTTPError", <<"Rate limit", " reached">>),
      Exc("ConnectionError", <<"Connection refused">>),
      Exc("TimeoutError", <<"Read timed out">>) }

\* last_error = f"Model {model} failed: {str(e)} ({type(e).__name__})"
FailureText(model, e) ==
    <<"Model ", model, " failed: ">> \o e.msg \o <<" (", e.type, ")">>

KeepFirstError(prev, new) == IF prev = <<>> THEN new ELSE prev

\* the assignment to last_error in the except block
UpdateLastError(prev, new) == new

NextIndexRetry(k) == k

\* enumerate(models_to_try) after `continue`
NextIndex(k) == k + 1

LoopExhaustedEarly(k, models) == k > 1

\* the for loop has run out of candidates
LoopExhausted(k, models) == k > Len(models)

\* raise Exception(f"All models failed. Last error: {last_error}")
AllFailedError(err) ==
    Exc("Exception", <<"All models failed", ". Last error: ">> \o err)

LogRec(ev, model, e) == [ev |-> ev, model |-> model, type |-> e.type, msg |-> e.msg]

----------------------------------------------------------------------------
(* analyze_image: resize *)

PIXELS_PER_MP == 1000000

RESIZE_MP == 50

max_dimension == 5000

Min(a, b) == IF a < b THEN a ELSE b

\* megapixels > 50, with megapixels = (width * height) / 1_000_000
Oversized(w, h) == w * h > RESIZE_MP * PIXELS_PER_MP

\* the triples <<a, num, den>> of the model's dimensions for which the double
\* a * (num / den) lies just below the exact integer quotient
RoundsDown == { <<8472, 5000, 8472>> }

\* int(a * (num / den)) in double arithmetic
IntScale(a, num, den) ==
    IF <<a, num, den>> \in RoundsDown
    THEN (a * num) \div den - 1
    ELSE (a * num) \div den

\* new_width, new_height
NewSize(w, h) ==
    IF w > h
    THEN LET new_width == Min(w, max_dimension)
         IN  <<new_width, IntScale(h, new_width, w)>>
    ELSE LET new_height == Min(h, max_dimension)
         IN  <<IntScale(w, new_height, h), new_height>>

\* Image.resize refuses an empty target size
ResizeError == Exc("ValueError", <<"height and width must be > 0">>)

ResizeFails(size) == size[1] < 1 \/ size[2] < 1

OpenError == Exc("FileNotFoundError", <<"No such file or directory">>)

GetError == Exc("AttributeError", <<"'str' object has no attribute 'get'">>)

----------------------------------------------------------------------------
(* analyze_image: formatter *)

common_objects ==
    << <<"p","e","r","s","o","n">>, <<"p","e","o","p","l","e">>, <<"m","a","n">>,
       <<"w","o","m","a","n">>, <<"c","h","i","l","d">>, <<"c","a","r">>,
       <<"t","r","e","e">>, <<"b","u","i","l","d","i","n","g">>, <<"h","o","u","s","e">>,
       <<"s","k","y">>, <<"c","l","o","u","d">>, <<"w","a","t","e","r">>,
       <<"g","r","a","s","s">>, <<"f","l","o","w","e","r">>, <<"a","n","i","m","a","l">>,
       <<"d","o","g">>, <<"c","a","t">>, <<"b","i","r","d">>,
       <<"t","a","b","l","e">>, <<"c","h","a","i","r">>, <<"b","o","o","k">>,
       <<"p","h","o","n","e">>, <<"c","o","m","p","u","t","e","r">>, <<"f","o","o","d">>,
       <<"p","l","a","t","e">>, <<"c","u","p">>, <<"b","o","t","t","l","e">>,
       <<"b","a","g">>, <<"r","o","a","d">>, <<"s","t","r","e","e","t">>,
       <<"w","i","n","d","o","w">>, <<"d","o","o","r">>, <<"l","i","g","h","t">>,
       <<"s","i","g","n">>, <<"b","i","k","e">>, <<"b","i","c","y","c","l","e">>,
       <<"b","u","s">>, <<"t","r","a","i","n">>, <<"b","o","a","t">>,
       <<"a","i","r","p","l","a","n","e">>, <<"t","r","a","f","f","i","c">>,
       <<"f","i","r","e">>, <<"s","t","o","p">> >>

\* \b between positions p and p + 1 of text (p = 0: the start, p = Len: the end)
Boundary(text, p) ==
    LET before == p >= 1 /\ IsWordChar(text[p])
        after  == p + 1 <= Len(text) /\ IsWordChar(text[p + 1])
    IN  before # after

SearchNoEndBoundary(obj, text) ==
    \E k \in 1..(Len(text) - Len(obj) + 1) :
        /\ text[k] = obj[1]
        /\ SubSeq(text, k, k + Len(obj) - 1) = obj
        /\ Boundary(text, k - 1)

\* re.search(r'\b' + re.escape(obj) + r's?\b', text)
Search(obj, text) ==
    \E k \in 1..(Len(text) - Len(obj) + 1) :
        LET e == k + Len(obj) - 1
        IN  /\ text[k] = obj[1]
            /\ SubSeq(text, k, e) = obj
            /\ Boundary(text, k - 1)
            /\ \/ e + 1 <= Len(text) /\ text[e + 1] = "s" /\ Boundary(text, e + 1)
               \/ Boundary(text, e)

\* all_text = f"{general_summary} {detailed_description}".lower()
AllText(general_summary, detailed_description) ==
    Lower(general_summary \o <<" ">> \o detailed_description)

RECURSIVE Collect(_, _)
Collect(objs, text) ==
    IF objs = <<>> THEN <<>>
    ELSE (IF Search(Head(objs), text) THEN <<Capitalize(Head(objs))>> ELSE <<>>)
         \o Collect(Tail(objs), text)

\* the loop over common_objects filling visible_objects
VisibleObjects(text) == Collect(common_objects, text)

\* the iteration orders of set(visible_objects)
Orderings(S) ==
    { f \in [1..Cardinality(S) -> S] :
        \A a, b \in 1..Cardinality(S) : f[a] = f[b] => a = b }

\* elements_list, with the bullets in the order the set was iterated
ElementsList(detailed_description, visible_objects, bullets) ==
    <<"**AI Description:**\n">> \o detailed_description \o <<"\n\n">>
    \o (IF visible_objects # <<>>
        THEN <<"**Detected Objects:**\n">>
             \o Join(<<"\n">>, [k \in 1..Len(bullets) |-> <<"* ">> \o bullets[k]])
        ELSE <<"**Note:** Upload an image to see detailed element detection">>)

\* result[0].get('generated_text', 'Unable to generate caption'); the value
\* query_hf_api returns is always a non-empty list
CaptionOf(result) ==
    IF result[1].has_text THEN result[1].generated_text ELSE UNABLE

----------------------------------------------------------------------------
(* analyze_image: the except clauses *)

SETUP_REQUIRED ==
    <<"**Setup Required**: Please add your Hugging Face token to the .env file. See README for instructions.">>

AUTH_ERROR ==
    <<"**Authentication Error**: Invalid Hugging Face token. Please verify your token.">>

SERVICE_ERROR ==
    <<"**Service Error**: Model is loading. Please try again in a few moments.">>

RATE_LIMIT ==
    <<"**Rate Limit**: Too many requests. Please wait before trying again.">>

HandleOnlyValueError(e) ==
    IF IsValueError(e)
    THEN Return(<<"**Configuration Error**: ">> \o e.msg, <<>>)
    ELSE Propagate(e)

\* except ValueError ... except Exception ...
HandleException(e) ==
    IF IsValueError(e)
    THEN IF Contains(e.msg, <<"HUGGINGFACE_TOKEN", " not found">>)
         THEN Return(SETUP_REQUIRED, <<>>)
         ELSE Return(<<"**Configuration Error**: ">> \o e.msg, <<>>)
    ELSE IF IsException(e)
    THEN LET error_msg == e.msg
         IN  IF Contains(error_msg, <<"401">>)
                \/ Contains(Lower(error_msg), <<"unauthorized">>)
             THEN Return(AUTH_ERROR, <<>>)
             ELSE IF Contains(error_msg, <<"503">>)
                     \/ Contains(Lower(error_msg), <<"model is currently loading">>)
             THEN Return(SERVICE_ERROR, <<>>)
             ELSE IF Contains(Lower(error_msg), <<"rate limit">>)
             THEN Return(RATE_LIMIT, <<>>)
             ELSE IF Contains(error_msg, <<"all models failed">>)
             THEN Return(<<"**Model Error**: ">> \o error_msg
                         \o <<". Check app.log for detailed error information.">>, <<>>)
             ELSE Return(<<"**Unexpected Error**: ">> \o error_msg
                         \o <<". Check app.log for details.">>, <<>>)
    ELSE Propagate(e)

----------------------------------------------------------------------------
(* Inputs *)

NoneImage == [kind |-> "None", width |-> 0, height |-> 0, openable |-> FALSE]

PilImage(w, h) == [kind |-> "pil", width |-> w, height |-> h, openable |-> TRUE]

PathImage(w, h, ok) == [kind |-> "path", width |-> w, height |-> h, openable |-> ok]

OtherImage == [kind |-> "other", width |-> 0, height |-> 0, openable |-> FALSE]

\* the images of the pipeline specification
Images ==
    { NoneImage, OtherImage,
      PathImage(640, 480, TRUE), PathImage(640, 480, FALSE),
      PilImage(100, 100), PilImage(10000, 8000), PilImage(500001, 100) }

\* the side lengths of the resize specification
DimValues ==
    { 1, 100, 101, 3000, 5000, 7071, 7072, 8472, 10000, 12500,
      500001, 505000, 60000000 }

ResizeImages ==
    { PilImage(w, h) : <<w, h>> \in
        { d \in DimValues \X DimValues : d[1] <= MaxPixels \div d[2] } }

Unset == [set |-> FALSE, value |-> <<>>]

SetTo(v) == [set |-> TRUE, value |-> v]

Envs ==
    { Unset, SetTo(<<" ">>), SetTo(<<"your_token_here">>),
      SetTo(<<" ", "your_token_here", "\n">>),
      SetTo(<<"abc">>), SetTo(<<"hf_", "abc">>) }

\* the captions a backend answers with in the pipeline specification
Captions ==
    { <<>>, <<" ">>, <<"a", " ", "c", "a", "t">>,
      <<" ", "C", "a", "r", "s", " ", "b", "u", "s", "\n">> }

Responses ==
    { StrResponse(c) : c \in Captions }
    \cup { ListResponse(<<Dict(c)>>) : c \in Captions }
    \cup { ListResponse(<<EmptyDict>>), ListResponse(<<NonDict>>),
           ListResponse(<<>>), NoneResponse }

Pieces ==
    { <<"c", "a", "t">>, <<"C", "a", "r">>, <<"b", "u", "s">>,
      <<"s">>, <<" ">>, <<"x">> }

RECURSIVE CaptionsUpTo(_)
CaptionsUpTo(n) ==
    IF n = 0 THEN { <<>> }
    ELSE LET prev == CaptionsUpTo(n - 1)
         IN  prev \cup { c \o q : c \in prev, q \in Pieces }

----------------------------------------------------------------------------
(* Actions *)

NoResponse == [type |-> "nothing", text |-> <<>>, items |-> <<>>]

Size(w, h) == [width |-> w, height |-> h]

Step(next, size, r) == [pc |-> next, img |-> size, ret |-> r]

\* analyze_image up to the call of query_hf_api
AnalyzeStep(im) ==
    IF im.kind = "None"
    THEN Step("done", Size(0, 0), Return(<<"Please upload an image first.">>, <<>>))
    ELSE LET resize == im.kind = "pil" /\ Oversized(im.width, im.height)
             size   == IF resize THEN NewSize(im.width, im.height)
                       ELSE <<im.width, im.height>>
             orig   == Size(im.width, im.height)
         IN  IF resize /\ ResizeFails(size)
             THEN Step("done", orig, HandleException(ResizeError))
             ELSE IF im.kind = "path"
             THEN IF im.openable
                  THEN Step("query", Size(size[1], size[2]), NoRet)
                  ELSE Step("done", orig, HandleException(OpenError))
             ELSE IF im.kind = "pil"
             THEN Step("query", Size(size[1], size[2]), NoRet)
             ELSE Step("done", orig,
                       Return(<<"**Error**: Unsupported image format">>, <<>>))

AnalyzeImage ==
    /\ pc = "start"
    /\ LET out == AnalyzeStep(image)
       IN  /\ pc' = out.pc
           /\ img' = out.img
           /\ ret' = out.ret
    /\ UNCHANGED <<image, env_token, client_ok, models_to_try, i, last_error,
                   in_flight, log, response, qresult, raised, listed>>

\* query_hf_api up to the loop; what it raises reaches the except clauses
QueryStart ==
    /\ pc = "query"
    /\ LET token == GetToken(env_token)
           warned == IF StartsWith(token, <<"hf_">>) THEN log
                     ELSE Append(log, LogRec("token_warning", "", NoExc))
       IN  IF TokenMissing(token)
           THEN /\ raised' = TokenError
                /\ ret' = HandleException(TokenError)
                /\ log' = Append(log, LogRec("token_error", "", TokenError))
                /\ pc' = "done"
                /\ UNCHANGED <<models_to_try, i>>
           ELSE IF ~client_ok
           THEN /\ raised' = ClientInitError
                /\ ret' = HandleException(ClientInitError)
                /\ log' = Append(warned, LogRec("client_error", "", ClientInitError))
                /\ pc' = "done"
                /\ UNCHANGED <<models_to_try, i>>
           ELSE /\ models_to_try' = ModelsToTry(model_id, fallback_models)
                /\ i' = 1
                /\ log' = warned
                /\ pc' = "loop"
                /\ UNCHANGED <<raised, ret>>
    /\ UNCHANGED <<image, env_token, client_ok, img, last_error, in_flight,
                   response, qresult, listed>>

\* the loop body up to client.image_to_text
Attempt ==
    /\ pc = "loop"
    /\ ~LoopExhausted(i, models_to_try)
    /\ log' = Append(log, LogRec("attempt", models_to_try[i], NoExc))
    /\ in_flight' = in_flight \cup {models_to_try[i]}
    /\ pc' = "call"
    /\ UNCHANGED <<image, env_token, client_ok, img, models_to_try, i, last_error,
                   response, qresult, raised, listed, ret>>

\* the backend answers: the try block after the call
CallReturns ==
    /\ pc = "call"
    /\ \E r \in Responses :
        /\ response' = r
        /\ qresult' = WrapResult(r)
    /\ log' = Append(log, LogRec("success", models_to_try[i], NoExc))
    /\ in_flight' = in_flight \ {models_to_try[i]}
    /\ pc' = "format"
    /\ UNCHANGED <<image, env_token, client_ok, img, models_to_try, i, last_error,
                   raised, listed, ret>>

\* the backend call raises: the except block of the loop
CallRaises ==
    /\ pc = "call"
    /\ \E e \in BackendErrors :
        /\ log' = Append(log, LogRec("failed", models_to_try[i], e))
        /\ last_error' = UpdateLastError(last_error, FailureText(models_to_try[i], e))
    /\ i' = NextIndex(i)
    /\ in_flight' = in_flight \ {models_to_try[i]}
    /\ pc' = "loop"
    /\ UNCHANGED <<image, env_token, client_ok, img, models_to_try, response,
                   qresult, raised, listed, ret>>

\* after the loop: the raise, caught by analyze_image
AllFailed ==
    /\ pc = "loop"
    /\ LoopExhausted(i, models_to_try)
    /\ raised' = AllFailedError(last_error)
    /\ ret' = HandleException(AllFailedError(last_error))
    /\ log' = Append(log, LogRec("all_failed", "", AllFailedError(last_error)))
    /\ pc' = "done"
    /\ UNCHANGED <<image, env_token, client_ok, img, models_to_try, i, last_error,
                   in_flight, response, qresult, listed>>

\* analyze_image after query_hf_api returned
FormatResult ==
    /\ pc = "format"
    /\ IF ~qresult[1].dict
       THEN /\ ret' = HandleException(GetError)
            /\ listed' = <<>>
       ELSE LET general_summary == CaptionOf(qresult)
                detailed_description == general_summary
            IN  \E all_text \in {AllText(general_summary, detailed_description)} :
                \E visible_objects \in {VisibleObjects(all_text)} :
                \E bullets \in Orderings(Range(visible_objects)) :
                    /\ listed' = bullets
                    /\ ret' = Return(ElementsList(detailed_description,
                                                  visible_objects, bullets),
                                     general_summary)
    /\ pc' = "done"
    /\ UNCHANGED <<image, env_token, client_ok, img, models_to_try, i, last_error,
                   in_flight, log, response, qresult, raised>>

----------------------------------------------------------------------------
(* Specifications *)

Idle ==
    /\ img = Size(0, 0)
    /\ models_to_try = <<>>
    /\ i = 0
    /\ last_error = <<>>
    /\ in_flight = {}
    /\ log = <<>>
    /\ response = NoResponse
    /\ qresult = <<>>
    /\ raised = NoExc
    /\ listed = <<>>
    /\ ret = NoRet

\* one request of the pipeline
Init ==
    /\ image \in Images
    /\ env_token \in Envs
    /\ client_ok \in BOOLEAN
    /\ pc = "start"
    /\ Idle

Next ==
    \/ AnalyzeImage
    \/ QueryStart
    \/ Attempt
    \/ CallReturns
    \/ CallRaises
    \/ AllFailed
    \/ FormatResult

Spec == Init /\ [][Next]_vars

\* the resize arithmetic over a grid of image sizes
InitResize ==
    /\ image \in ResizeImages
    /\ env_token = SetTo(<<"hf_", "abc">>)
    /\ client_ok = TRUE
    /\ pc = "start"
    /\ Idle

NextResize == AnalyzeImage

SpecResize == InitResize /\ [][NextResize]_vars

\* the formatter over the captions built from Pieces: the state in which the
\* primary model has just answered with the caption
InitFormat ==
    /\ image = PilImage(100, 100)
    /\ env_token = SetTo(<<"hf_", "abc">>)
    /\ client_ok = TRUE
    /\ pc = "format"
    /\ img = Size(100, 100)
    /\ models_to_try = ModelsToTry(model_id, fallback_models)
    /\ i = 1
    /\ last_error = <<>>
    /\ in_flight = {}
    /\ log = <<LogRec("attempt", model_id, NoExc), LogRec("success", model_id, NoExc)>>
    /\ \E c \in CaptionsUpTo(MaxPieces) :
        /\ response = ListResponse(<<Dict(c)>>)
        /\ qresult = WrapResult(ListResponse(<<Dict(c)>>))
    /\ raised = NoExc
    /\ listed = <<>>
    /\ ret = NoRet

NextFormat == FormatResult

SpecFormat == InitFormat /\ [][NextFormat]_vars

----------------------------------------------------------------------------
(* Properties *)

\* the log records of one kind, in the order they were written
Events(kind) == SelectSeq(log, LAMBDA r : r.ev = kind)

ModelsOf(recs) == [k \in 1..Len(recs) |-> recs[k].model]

AllBlank(s) == \A k \in 1..Len(s) : s[k] \in WHITESPACE

\* t is s without its leading and trailing whitespace
IsTrimOf(t, s) ==
    /\ t = <<>> \/ (t[1] \notin WHITESPACE /\ t[Len(t)] \notin WHITESPACE)
    /\ \E a \in 0..Len(s) :
        /\ a + Len(t) <= Len(s)
        /\ SubSeq(s, a + 1, a + Len(t)) = t
        /\ AllBlank(SubSeq(s, 1, a))
        /\ AllBlank(SubSeq(s, a + Len(t) + 1, Len(s)))

\* the backend answered with a caption: a string, or a list of a dict with the text
AnsweredCaption ==
    \/ response.type = "str"
    \/ /\ response.type = "list"
       /\ Len(response.items) > 0
       /\ response.items[1].dict
       /\ response.items[1].has_text

AllFailedRaised ==
    raised.type = "Exception" /\ StartsWith(raised.msg, <<"All models failed">>)

\* C1: when the first N candidates fail and candidate N+1 answers with a caption,
\* query_hf_api returns that caption (a string answer without its surrounding
\* whitespace) and raises nothing, and the log holds exactly N failure records,
\* one per failing candidate, in candidate order, all written before the success.
C1_FallbackReturnsCaption ==
    (pc \in {"format", "done"} /\ AnsweredCaption) =>
        LET failures == Events("failed")
            n == Len(failures)
        IN  /\ raised = NoExc
            /\ Len(qresult) > 0
            /\ qresult[1].dict /\ qresult[1].has_text
            /\ IF response.type = "str"
               THEN IsTrimOf(qresult[1].generated_text, response.text)
               ELSE qresult[1].generated_text = response.items[1].generated_text
            /\ n + 1 <= Len(models_to_try)
            /\ ModelsOf(failures) = SubSeq(models_to_try, 1, n)
            /\ log[Len(log)].ev = "success"
            /\ log[Len(log)].model = models_to_try[n + 1]

C1_Witness ==
    /\ pc = "done"
    /\ response.type = "str"
    /\ Len(Events("failed")) = 3
    /\ ret.kind = "return"
    /\ ret.summary = <<"a", " ", "c", "a", "t">>

\* C2 (as claimed): when every candidate fails, the raised error names every
\* attempted candidate together with its failure reason.
C2_ErrorNamesEveryCandidate ==
    AllFailedRaised =>
        \A k \in 1..Len(Events("failed")) :
            /\ Contains(raised.msg, <<Events("failed")[k].model>>)
            /\ Contains(raised.msg, Events("failed")[k].msg)

\* C2 (amended): when every candidate fails, the raised error names the last
\* attempted candidate only, with its failure reason and exception type; no
\* earlier candidate is named in it, and every candidate's failure is in the log.
C2_ErrorNamesLastCandidateOnly ==
    AllFailedRaised =>
        LET failures == Events("failed")
            n == Len(failures)
            last == failures[n]
        IN  /\ n = Len(models_to_try)
            /\ raised.msg = <<"All models failed", ". Last error: ", "Model ",
                              last.model, " failed: ">>
                            \o last.msg \o <<" (", last.type, ")">>
            /\ \A k \in 1..(n - 1) : ~Contains(raised.msg, <<failures[k].model>>)

C2_Witness ==
    /\ pc = "done"
    /\ AllFailedRaised
    /\ Events("failed")[1].msg # Events("failed")[4].msg

\* C3: the 'all models failed' error is raised only when every candidate of the
\* list has been attempted and has failed, none is in flight or untried, and its
\* message embeds model, reason and exception type of the last candidate's failure.
C3_RaisedOnlyAfterAllFailed ==
    AllFailedRaised =>
        LET failures == Events("failed")
            n == Len(models_to_try)
        IN  /\ ModelsOf(Events("attempt")) = models_to_try
            /\ ModelsOf(failures) = models_to_try
            /\ Events("success") = <<>>
            /\ in_flight = {}
            /\ failures[n].model = models_to_try[n]
            /\ Contains(raised.msg, <<models_to_try[n], " failed: ">>)
            /\ Contains(raised.msg, failures[n].msg \o <<" (", failures[n].type, ")">>)

C3_Witness ==
    /\ pc = "done"
    /\ AllFailedRaised
    /\ Len(Events("attempt")) = 4
    /\ Events("failed")[4].type = "TimeoutError"

\* C4: candidates are attempted in list order, the primary model first, each at
\* most once; at most one backend call is in flight; and no candidate is
\* attempted after a candidate has answered.
C4_OrderedSingleAttempts ==
    LET attempts == ModelsOf(Events("attempt"))
    IN  /\ Len(attempts) <= Len(models_to_try)
        /\ attempts = SubSeq(models_to_try, 1, Len(attempts))
        /\ \A a, b \in 1..Len(attempts) : attempts[a] = attempts[b] => a = b
        /\ Cardinality(in_flight) <= 1
        /\ \A a, b \in 1..Len(log) :
            (log[a].ev = "success" /\ a < b) => log[b].ev # "attempt"
        /\ Len(Events("success")) <= 1

C4_Witness ==
    /\ pc = "done"
    /\ Len(Events("attempt")) = 3
    /\ Len(Events("failed")) = 2
    /\ Len(Events("success")) = 1

\* C5: analyze_image never ends by raising: every finished request has returned
\* a pair whose first element is a non-empty message.
C5_NeverRaises ==
    /\ ret.kind # "raise"
    /\ pc = "done" => (ret.kind = "return" /\ ret.elements # <<>>)

C5_Witness ==
    /\ pc = "done"
    /\ AllFailedRaised
    /\ ret.kind = "return"
    /\ image.kind = "path"

\* the credential as query_hf_api reads it
TokenAbsent ==
    \/ ~env_token.set
    \/ AllBlank(env_token.value)
    \/ Strip(env_token.value) = <<"your_token_here">>

TokenNotHf ==
    ~(env_token.set /\ StartsWith(Strip(env_token.value), <<"hf_">>))

\* the request got as far as calling query_hf_api
ReachedQuery == AnalyzeStep(image).pc = "query"

\* C6 (as claimed): a token that is missing, blank, the placeholder or not in the
\* 'hf_' format makes query_hf_api fail with a configuration error, and no
\* candidate backend call is made.
C6_InvalidTokenNoCall ==
    (TokenAbsent \/ TokenNotHf) =>
        /\ Events("attempt") = <<>>
        /\ (pc \notin {"start", "query"} /\ ReachedQuery) => raised.type = "ValueError"

\* C6 (amended): a token that is missing, blank or the placeholder makes
\* query_hf_api fail with a configuration error and no candidate backend call is
\* made; a token that is present but not in the 'hf_' format only produces a
\* warning, and the candidates are then attempted.
C6_MissingTokenNoCall ==
    /\ TokenAbsent =>
        /\ Events("attempt") = <<>>
        /\ in_flight = {}
        /\ pc \in {"start", "query", "done"}
        /\ (pc = "done" /\ ReachedQuery) =>
            (raised.type = "ValueError" /\ Len(Events("token_error")) = 1)
    /\ (~TokenAbsent /\ TokenNotHf /\ pc \in {"loop", "call", "format"}) =>
        /\ Len(Events("token_warning")) = 1
        /\ raised = NoExc

C6_Witness ==
    /\ pc = "done"
    /\ env_token = SetTo(<<" ", "your_token_here", "\n">>)
    /\ raised.type = "ValueError"
    /\ Events("attempt") = <<>>

\* the maximal runs of word characters of a text
WordRuns(text) ==
    { SubSeq(text, a, b) : <<a, b>> \in
        { p \in (1..Len(text)) \X (1..Len(text)) :
            /\ p[1] <= p[2]
            /\ \A k \in p[1]..p[2] : IsWordChar(text[k])
            /\ p[1] = 1 \/ ~IsWordChar(text[p[1] - 1])
            /\ p[2] = Len(text) \/ ~IsWordChar(text[p[2] + 1]) } }

Count(seq, x) == Cardinality({ k \in 1..Len(seq) : seq[k] = x })

\* C7: for every caption and every word w of the vocabulary, the capitalized w
\* is listed exactly once among the detected objects when w or w followed by
\* 's' is a whole word of the lowercased caption, and is not listed otherwise.
C7_VocabularyDetectedOnce ==
    (pc = "done" /\ ret.kind = "return" /\ Len(qresult) > 0) =>
        LET runs == WordRuns(Lower(ret.summary))
        IN  \A k \in 1..Len(common_objects) :
                LET w == common_objects[k]
                IN  Count(listed, Capitalize(w)) =
                        IF w \in runs \/ (w \o <<"s">>) \in runs THEN 1 ELSE 0

C7_Witness ==
    /\ pc = "done"
    /\ ret.summary = <<"C", "a", "r", "s", " ", "c", "a", "t">>
    /\ Len(listed) = 2
    /\ listed[1] = <<"C", "a", "t">>

\* C8: an image of more than 50,000,000 pixels is submitted with its longer
\* side at most 5000, both sides at least 1 and the shorter side equal to the
\* scaled original shorter side up to rounding; an image of at most 50,000,000
\* pixels is submitted with its dimensions unchanged.
C8_OversizedDownscaled ==
    (pc # "start" /\ image.kind = "pil") =>
        LET long  == IF image.width > image.height THEN image.width ELSE image.height
            short == IF image.width > image.height THEN image.height ELSE image.width
            newlong  == IF image.width > image.height THEN img.width ELSE img.height
            newshort == IF image.width > image.height THEN img.height ELSE img.width
        IN  IF image.width * image.height > 50000000
            THEN /\ ret.kind = "none"
                 /\ newlong <= 5000
                 /\ newlong >= 1 /\ newshort >= 1
                 /\ newshort - (short * newlong) \div long \in {-1, 0, 1}
            ELSE /\ ret.kind = "none"
                 /\ img = Size(image.width, image.height)

\* C9: when a request completes through a candidate that answered, both
\* returned values, the elements markdown and the summary, are non-empty.
C9_SuccessNonEmpty ==
    (pc = "done" /\ response # NoResponse) =>
        (ret.kind = "return" /\ ret.elements # <<>> /\ ret.summary # <<>>)

\* the last failure reason mentions 401 / unauthorized, 503 / model loading or
\* a rate limit
LastReasonClassified ==
    LET reason == Events("failed")[Len(Events("failed"))].msg
    IN  \/ Contains(reason, <<"401">>) \/ Contains(Lower(reason), <<"unauthorized">>)
        \/ Contains(reason, <<"503">>)
        \/ Contains(Lower(reason), <<"model is currently loading">>)
        \/ Contains(Lower(reason), <<"rate limit">>)

\* C10: when all candidates are exhausted and the last failure reason mentions
\* none of 401 / unauthorized, 503 / model loading, rate limit, the returned
\* message is the 'Model Error' message; when the token is missing it is the
\* 'Setup Required' message.
C10_ErrorKindsAnnotated ==
    /\ (pc = "done" /\ AllFailedRaised /\ ~LastReasonClassified) =>
        StartsWith(ret.elements, <<"**Model Error**: ">>)
    /\ (pc = "done" /\ raised = TokenError /\ ~env_token.set) =>
        ret.elements = SETUP_REQUIRED

====
